---- MODULE Spec2Model ----
(***************************************************************************)
(* hummn-ratelimit: the limiter orchestrator (BaseRatelimit), the three    *)
(* algorithms (fixedWindow, slidingWindow, tokenBucket), the script        *)
(* executor (safeEval) and the Lua scripts they run on the store.          *)
(*                                                                         *)
(* One limiter instance with one algorithm talks to one store. Client      *)
(* processes call limit / getRemaining / resetUsedTokens; each call reads  *)
(* Date.now(), sends EVALSHA and is suspended until the store answers.     *)
(* The store runs one script at a time, at its own clock `now`. A request  *)
(* may stay in flight while time passes; the reply is delivered in the     *)
(* step in which the store produces it.                                    *)
(***************************************************************************)
EXTENDS Integers, Sequences, FiniteSets, TLC

\* ---------------------------------------------------------------- bounds
Tokens     == 2       \* fixedWindow / slidingWindow: tokens
WindowMs   == 1000    \* fixedWindow / slidingWindow: ms(window)
RefillRate == 1       \* tokenBucket: refillRate
IntervalMs == 1000    \* tokenBucket: ms(interval)
MaxTokens  == 2       \* tokenBucket: maxTokens
TimeoutMs  == 500     \* config.timeout (> 0: the watchdog takes part)
StartTime  == 1000    \* Date.now() when the first call is made
TickMs     == 500     \* granularity of the clock
MaxTime    == 2500    \* the clock stops here
MaxRate    == 2       \* largest rate a caller passes
MaxCount   == 3       \* no fixed-window call that takes the counter beyond
MaxWait    == 1500    \* longest wait a caller passes to blockUntilReady

\* ------------------------------------------------------- program constants
DefaultPrefix == "@hummn/ratelimit"
SlidingExtraMs == 1000         \* PEXPIRE currentKey, window * 2 + 1000
tokenBucketIdentifierNotFound == -1

\* A value that is not a number for the client: NaN, or a string that does
\* not convert to a number. Every comparison with it is false in the code,
\* so the client operators below test for it before they compare.
NaN == 0 - 1000000

\* The first two characters of SCRIPTS.default.tokenBucket.limit.hash are
\* "b" and "2": destructuring the SHA string gives remaining = "b", reset = "2".
TbLimitShaReset == 2
\* The first two characters of SCRIPTS.default.tokenBucket.getRemaining.hash
\* are "5" and "9".
TbRemainingShaFirst  == 5
TbRemainingShaSecond == 9

Clients == {"c1", "c2"}
\* Identifiers are strings; a string is a sequence of tokens so that ":" and
\* the glob pattern of the reset script can be told apart.
Ids == {<<"u">>, <<"u", ":", "v">>}
Rates == (0 - 1)..MaxRate          \* 0 stands for an omitted rate
Algos == {"fixedWindow", "slidingWindow", "tokenBucket"}
ScriptNames == {"limit", "getRemaining", "reset"}

Max(a, b) == IF a >= b THEN a ELSE b
Min(a, b) == IF a <= b THEN a ELSE b
Floor(a, b) == a \div b                      \* math.floor(a / b), b > 0
Ceil(a, b) == 0 - ((0 - a) \div b)           \* math.ceil(a / b), b > 0

VARIABLES
  algo,       \* the algorithm the limiter was constructed with
  now,        \* wall clock, shared by the clients and the store
  store,      \* the store's keyspace: key -> value with its expiry time
  scripts,    \* the store's script cache (names of this limiter's scripts)
  calls,      \* per client: the call in progress
  last,       \* the response a caller was given in the last step, if any
  admitted,   \* per id: units the store answered success in the bucket of now
              \* (counted as long as the run is plain)
  fresh,      \* the id whose reset completed last with no call for it since
  plain,      \* no reset has run and every script ran at its call's now
  timeout,    \* config.timeout of the limiter (0: no watchdog)
  block,      \* per client: the blockUntilReady call in progress
  ret,        \* what blockUntilReady returned or threw in the last step, if any
  skew,       \* the unit requests the store admitted in the window of now and
              \* the limit calls in flight at once in it (when kept)
  conf,       \* tokenBucket(refillRate, interval, maxTokens): the arguments
              \* the limiter's algorithm was constructed with
  timer       \* per client: the watchdog timer of its limit call

vars == <<algo, now, store, scripts, calls, last, admitted, fresh, plain,
          timeout, block, ret, skew, conf, timer>>

Idle == [op |-> "idle"]
NoResp == [op |-> "none"]
NoBlock == [st |-> "none"]
Off == [on |-> FALSE]

\* ------------------------------------------------------------------- keys
\* BaseRatelimit.key: [this.prefix, identifier].join(":")
key(identifier) == <<DefaultPrefix, ":">> \o identifier

\* [identifier, bucket].join(":")
BucketKey(k, bucket) == k \o <<":", ToString(bucket)>>

\* [identifier, "*"].join(":")
ResetPattern(k) == k \o <<":", "*">>

\* Math.floor(Date.now() / windowDuration)
Bucket(t) == Floor(t, WindowMs)

\* SCAN ... MATCH pattern: glob match, "*" matches any run of characters
RECURSIVE GlobMatch(_, _)
GlobMatch(p, s) ==
  IF p = <<>> THEN s = <<>>
  ELSE IF Head(p) = "*"
       THEN GlobMatch(Tail(p), s) \/ (s # <<>> /\ GlobMatch(p, Tail(s)))
       ELSE s # <<>> /\ Head(s) = Head(p) /\ GlobMatch(Tail(p), Tail(s))

\* a normalisation that passes a negative rate on
incrementBy_unclamped(rate) == IF rate # 0 THEN rate ELSE 1

\* rate ? Math.max(1, rate) : 1
incrementBy(rate) == IF rate # 0 THEN Max(1, rate) ELSE 1

\* ----------------------------------------------------------- store values
Exists(s, k) == k \in DOMAIN s
Get(s, k) == IF Exists(s, k) THEN s[k].val ELSE 0
Put(s, k, v) == [x \in DOMAIN s \cup {k} |-> IF x = k THEN v ELSE s[x]]
Drop(s, ks) == [x \in DOMAIN s \ ks |-> s[x]]
\* a PEXPIRE that sets nothing
Pexpire_none(s, k, ttl, t) == s

\* PEXPIRE key ttl at store time t: a ttl that is not positive deletes the key
Pexpire(s, k, ttl, t) ==
  IF ttl <= 0 THEN Drop(s, {k}) ELSE [s EXCEPT ![k].exp = t + ttl]
\* a key is gone once the clock has passed its expiry time
NoTtl == 0 - 1
Expire(s, t) == Drop(s, {k \in DOMAIN s : s[k].exp # NoTtl /\ s[k].exp < t})

IntReply(n) == [kind |-> "int", v |-> n]
ArrReply(a) == [kind |-> "arr", v |-> a]
ErrReply(m) == [kind |-> "err", v |-> m]
ShaReply == [kind |-> "sha"]

\* ---------------------------------------------------------------- scripts
\* Each script is run by the store in one step, at store time t, and gives
\* the new keyspace and the reply.

\* fixedWindowLimitScript(KEYS[1]; ARGV: window, incrementBy)
fixedWindowLimitScript(s, k, window, inc, t) ==
  IF window <= 0 THEN [store |-> s, reply |-> ErrReply("Invalid window")]
  ELSE LET exists == Exists(s, k)
           count  == Get(s, k) + inc
           s1     == IF exists THEN [s EXCEPT ![k].val = count]
                     ELSE Put(s, k, [val |-> count, exp |-> NoTtl])
           s2     == IF ~exists THEN Pexpire(s1, k, window, t) ELSE s1
       IN [store |-> s2, reply |-> IntReply(count)]

\* a read that materialises the counter it reads
fixedWindowRemainingTokensScript_touch(s, k) ==
  [store |-> IF Exists(s, k) THEN s ELSE Put(s, k, [val |-> 0, exp |-> NoTtl]),
   reply |-> IntReply(Get(s, k))]

\* fixedWindowRemainingTokensScript(KEYS[1])
fixedWindowRemainingTokensScript(s, k) ==
  [store |-> s, reply |-> IntReply(Get(s, k))]

\* math.floor((1 - (now % window) / window) * previous), in exact arithmetic
WeightedPrevious(previous, tnow, window) ==
  Floor((window - (tnow % window)) * previous, window)

\* if requestsInPreviousWindow + requestsInCurrentWindow >= tokens
slidingWindowFull(weighted, current, tokens) ==
  weighted + current >= tokens

\* a sliding-window script whose keys live for one window only
slidingWindowLimitScript_short(s, currentKey, previousKey, tokens, tnow, window, inc, t) ==
  LET current  == Get(s, currentKey)
      weighted == WeightedPrevious(Get(s, previousKey), tnow, window)
  IN IF slidingWindowFull(weighted, current, tokens)
     THEN [store |-> s, reply |-> IntReply(0 - 1)]
     ELSE LET newValue == current + inc
              s1 == IF Exists(s, currentKey)
                    THEN [s EXCEPT ![currentKey].val = newValue]
                    ELSE Put(s, currentKey, [val |-> newValue, exp |-> NoTtl])
              s2 == IF newValue = inc
                    THEN Pexpire(s1, currentKey, window, t)
                    ELSE s1
          IN [store |-> s2, reply |-> IntReply(tokens - (newValue + weighted))]

\* slidingWindowLimitScript(KEYS: currentKey, previousKey;
\*                          ARGV: tokens, now, window, incrementBy)
slidingWindowLimitScript(s, currentKey, previousKey, tokens, tnow, window, inc, t) ==
  IF tokens <= 0 THEN [store |-> s, reply |-> ErrReply("Invalid tokens")]
  ELSE IF tnow <= 0 THEN [store |-> s, reply |-> ErrReply("Invalid timestamp")]
  ELSE IF window <= 0 THEN [store |-> s, reply |-> ErrReply("Invalid window")]
  ELSE IF inc <= 0 THEN [store |-> s, reply |-> ErrReply("Invalid incrementBy")]
  ELSE LET current  == Get(s, currentKey)
           weighted == WeightedPrevious(Get(s, previousKey), tnow, window)
       IN IF slidingWindowFull(weighted, current, tokens)
          THEN [store |-> s, reply |-> IntReply(0 - 1)]
          ELSE LET newValue == current + inc
                   s1 == IF Exists(s, currentKey)
                         THEN [s EXCEPT ![currentKey].val = newValue]
                         ELSE Put(s, currentKey, [val |-> newValue, exp |-> NoTtl])
                   s2 == IF newValue = inc
                         THEN Pexpire(s1, currentKey, window * 2 + SlidingExtraMs, t)
                         ELSE s1
               IN [store |-> s2, reply |-> IntReply(tokens - (newValue + weighted))]

\* slidingWindowRemainingTokensScript(KEYS: currentKey, previousKey; ARGV: now, window)
slidingWindowRemainingTokensScript(s, currentKey, previousKey, tnow, window) ==
  [store |-> s,
   reply |-> IntReply(Get(s, currentKey)
                      + WeightedPrevious(Get(s, previousKey), tnow, window))]

\* a refill that restarts the interval at the time of the call
Refilled_restart(s, k, maxTokens, interval, refillRate, tnow) ==
  LET refilledAt0 == IF Exists(s, k) THEN s[k].refilledAt ELSE tnow
      tokens0     == IF Exists(s, k) THEN s[k].tokens ELSE maxTokens
  IN IF tnow >= refilledAt0 + interval
     THEN LET numRefills == Floor(tnow - refilledAt0, interval)
          IN [tokens |-> Min(maxTokens, tokens0 + numRefills * refillRate),
              refilledAt |-> tnow]
     ELSE [tokens |-> tokens0, refilledAt |-> refilledAt0]

\* The bucket the token-bucket script works on after loading the hash and
\* applying the refills that are due.
Refilled(s, k, maxTokens, interval, refillRate, tnow) ==
  LET refilledAt0 == IF Exists(s, k) THEN s[k].refilledAt ELSE tnow
      tokens0     == IF Exists(s, k) THEN s[k].tokens ELSE maxTokens
  IN IF tnow >= refilledAt0 + interval
     THEN LET numRefills == Floor(tnow - refilledAt0, interval)
          IN [tokens |-> Min(maxTokens, tokens0 + numRefills * refillRate),
              refilledAt |-> refilledAt0 + numRefills * interval]
     ELSE [tokens |-> tokens0, refilledAt |-> refilledAt0]

\* a script that saves the refilled bucket when it refuses
tokenBucketLimitScript_saving(s, k, maxTokens, interval, refillRate, tnow, inc, t) ==
  LET b == Refilled(s, k, maxTokens, interval, refillRate, tnow)
  IN IF b.tokens < inc
     THEN [store |-> Put(s, k, [refilledAt |-> b.refilledAt, tokens |-> b.tokens,
                                exp |-> t + interval * 2]),
           reply |-> ArrReply(<<0, maxTokens, 0, interval>>)]
     ELSE LET remaining == b.tokens - inc
              expireAt  == Ceil(maxTokens - remaining, refillRate) * interval * 2
              s1 == Put(s, k, [refilledAt |-> b.refilledAt, tokens |-> remaining,
                               exp |-> NoTtl])
          IN [store |-> Pexpire(s1, k, expireAt, t),
              reply |-> ArrReply(<<1, maxTokens, remaining,
                                   b.refilledAt + interval - tnow>>)]

\* a script whose keys live for half an interval
tokenBucketLimitScript_brief(s, k, maxTokens, interval, refillRate, tnow, inc, t) ==
  LET b == Refilled(s, k, maxTokens, interval, refillRate, tnow)
  IN IF b.tokens < inc
     THEN [store |-> s, reply |-> ArrReply(<<0, maxTokens, 0, interval>>)]
     ELSE LET remaining == b.tokens - inc
              s1 == Put(s, k, [refilledAt |-> b.refilledAt, tokens |-> remaining,
                               exp |-> NoTtl])
          IN [store |-> Pexpire(s1, k, interval \div 2, t),
              reply |-> ArrReply(<<1, maxTokens, remaining,
                                   b.refilledAt + interval - tnow>>)]

\* tokenBucketLimitScript(KEYS[1]; ARGV: maxTokens, interval, refillRate, now, incrementBy)
tokenBucketLimitScript(s, k, maxTokens, interval, refillRate, tnow, inc, t) ==
  LET b == Refilled(s, k, maxTokens, interval, refillRate, tnow)
  IN IF b.tokens < inc
     THEN LET tokensNeeded    == inc - b.tokens
              intervalsNeeded == Ceil(tokensNeeded, refillRate)
              retryAfter      == b.refilledAt + intervalsNeeded * interval
          IN [store |-> s,
              reply |-> ArrReply(<<0, maxTokens, 0, retryAfter - tnow>>)]
     ELSE LET remaining         == b.tokens - inc
              tokensToRefill    == maxTokens - remaining
              intervalsToRefill == Ceil(tokensToRefill, refillRate)
              expireAt          == intervalsToRefill * interval * 2
              s1 == Put(s, k, [refilledAt |-> b.refilledAt, tokens |-> remaining,
                               exp |-> IF Exists(s, k) THEN s[k].exp ELSE NoTtl])
              resetAt == b.refilledAt + interval
          IN [store |-> Pexpire(s1, k, expireAt, t),
              reply |-> ArrReply(<<1, maxTokens, remaining, resetAt - tnow>>)]

\* tokenBucketRemainingTokensScript(KEYS[1]; ARGV: maxTokens)
tokenBucketRemainingTokensScript(s, k, maxTokens) ==
  [store |-> s,
   reply |-> IF ~Exists(s, k)
             THEN ArrReply(<<maxTokens, tokenBucketIdentifierNotFound>>)
             ELSE ArrReply(<<s[k].tokens, s[k].refilledAt>>)]

\* resetScript(KEYS[1] = pattern): SCAN the whole keyspace in batches and
\* UNLINK every key matching the pattern (fewer than max_deletes keys match).
resetScript(s, pattern) ==
  LET matching == {k \in DOMAIN s : GlobMatch(pattern, k)}
  IN [store |-> Drop(s, matching),
      reply |-> ArrReply(<<Cardinality(matching), 0>>)]

\* ------------------------------------------------------------------ errors
\* The text of an error is a sequence of words. The store answers EVALSHA for
\* a script it has not cached with NOSCRIPT (clients may reword the reply);
\* any command may also fail with another error of the store or of the
\* connection.
ErrNoScript      == <<"NOSCRIPT", "No matching script. Please use EVAL.">>
ErrNoScriptMixed == <<"ReplyError:", "NoScript", "no matching script">>
ErrServer        == <<"OOM", "command not allowed when used memory > 'maxmemory'.">>
ErrTransport     == <<"Error:", "Connection", "closed">>
NoScriptErrors == {ErrNoScript, ErrNoScriptMixed}
OtherErrors == {ErrServer, ErrTransport}

\* String.prototype.toLowerCase, word by word
toLowerCase(w) ==
  CASE w = "NOSCRIPT" -> "noscript"
    [] w = "NoScript" -> "noscript"
    [] w = "ReplyError:" -> "replyerror:"
    [] w = "OOM" -> "oom"
    [] w = "ERR" -> "err"
    [] w = "Error:" -> "error:"
    [] w = "Connection" -> "connection"
    [] OTHER -> w

\* `${error}`.toLowerCase().includes("noscript")
includesNoscript(e) == \E i \in 1..Len(e) : toLowerCase(e[i]) = "noscript"

\* a catch branch that loads the script whatever the error
safeEvalCatch_always(e) == "load"

\* safeEval's catch branch: SCRIPT LOAD on NOSCRIPT, otherwise rethrow
safeEvalCatch(e) == IF includesNoscript(e) THEN "load" ELSE "throw"

\* ------------------------------------------------------------ client side
IsNum(x) == x # NaN

\* The keys a call hands to its script.
CurrentKey(call) == BucketKey(key(call.id), Bucket(call.t))
PreviousKey(call) == BucketKey(key(call.id), Bucket(call.t) - 1)

\* The script a call runs, on keyspace s at store time t.
RunScript(s, call, t) ==
  CASE call.op = "limit" /\ algo = "fixedWindow" ->
         fixedWindowLimitScript(s, CurrentKey(call), WindowMs, call.inc, t)
    [] call.op = "limit" /\ algo = "slidingWindow" ->
         slidingWindowLimitScript(s, CurrentKey(call), PreviousKey(call),
                                  Tokens, call.t, WindowMs, call.inc, t)
    [] call.op = "limit" /\ algo = "tokenBucket" ->
         tokenBucketLimitScript(s, key(call.id), conf.maxTokens, conf.interval,
                                conf.refillRate, call.t, call.inc, t)
    [] call.op = "getRemaining" /\ algo = "fixedWindow" ->
         fixedWindowRemainingTokensScript(s, CurrentKey(call))
    [] call.op = "getRemaining" /\ algo = "slidingWindow" ->
         slidingWindowRemainingTokensScript(s, CurrentKey(call),
                                            PreviousKey(call), call.t, WindowMs)
    [] call.op = "getRemaining" /\ algo = "tokenBucket" ->
         tokenBucketRemainingTokensScript(s, key(call.id), conf.maxTokens)
    [] call.op = "reset" ->
         resetScript(s, ResetPattern(key(call.id)))

\* What the store holds for the call's identifier, as the units still free
\* (token bucket) or already used (the windows), seen at the call's now.
Used(s, call) ==
  IF algo = "tokenBucket"
  THEN conf.maxTokens - Refilled(s, key(call.id), conf.maxTokens,
                                 conf.interval, conf.refillRate, call.t).tokens
  ELSE Get(s, CurrentKey(call))

\* fixedWindow(...).limit admitting one unit more than tokens
fixedWindowLimit_oneMore(call, reply) ==
  LET bucket == Bucket(call.t)
      usedTokensAfterUpdate == IF reply.kind = "int" THEN reply.v ELSE NaN
  IN [success   |-> IsNum(usedTokensAfterUpdate)
                    /\ usedTokensAfterUpdate <= Tokens + 1,
      limit     |-> Tokens,
      remaining |-> IF IsNum(usedTokensAfterUpdate)
                    THEN Max(0, Tokens - usedTokensAfterUpdate) ELSE NaN,
      reset     |-> (bucket + 1) * WindowMs]

\* fixedWindow(...).limit reporting no reset time
fixedWindowLimit_resetless(call, reply) ==
  LET usedTokensAfterUpdate == IF reply.kind = "int" THEN reply.v ELSE NaN
  IN [success   |-> IsNum(usedTokensAfterUpdate) /\ usedTokensAfterUpdate <= Tokens,
      limit     |-> Tokens,
      remaining |-> IF IsNum(usedTokensAfterUpdate)
                    THEN Max(0, Tokens - usedTokensAfterUpdate) ELSE NaN,
      reset     |-> 0]

\* Ratelimit.fixedWindow(...).limit, after the await
fixedWindowLimit(call, reply) ==
  LET bucket == Bucket(call.t)
      usedTokensAfterUpdate == IF reply.kind = "int" THEN reply.v ELSE NaN
  IN [success   |-> IsNum(usedTokensAfterUpdate) /\ usedTokensAfterUpdate <= Tokens,
      limit     |-> Tokens,
      remaining |-> IF IsNum(usedTokensAfterUpdate)
                    THEN Max(0, Tokens - usedTokensAfterUpdate) ELSE NaN,
      reset     |-> (bucket + 1) * WindowMs]

\* Ratelimit.slidingWindow(...).limit, after the await
slidingWindowLimit(call, reply) ==
  LET currentWindow == Bucket(call.t)
      remaining == IF reply.kind = "int" THEN reply.v ELSE NaN
  IN [success   |-> IsNum(remaining) /\ remaining >= 0,
      limit     |-> Tokens,
      remaining |-> remaining,
      reset     |-> (currentWindow + 1) * WindowMs]

\* Ratelimit.tokenBucket(...).limit, after the await:
\* const [remaining, reset] = reply
tokenBucketLimit(call, reply) ==
  LET remaining == IF reply.kind = "arr" THEN reply.v[1] ELSE NaN
      reset     == IF reply.kind = "arr" THEN reply.v[2] ELSE TbLimitShaReset
  IN [success   |-> IsNum(remaining) /\ remaining >= 0,
      limit     |-> conf.maxTokens,
      remaining |-> remaining,
      reset     |-> reset]

\* a watchdog that fails closed
createTimedOutResponse_closed ==
  [success |-> FALSE, limit |-> 0, remaining |-> 0, reset |-> 0,
   reason |-> "timeout"]

\* BaseRatelimit.createTimedOutResponse
createTimedOutResponse ==
  [success |-> TRUE, limit |-> 0, remaining |-> 0, reset |-> 0,
   reason |-> "timeout"]

\* getRemaining of the three algorithms, after the await (t: Date.now() then)
getRemainingResult(call, reply, t) ==
  CASE algo = "fixedWindow" ->
         [remaining |-> IF reply.kind = "int" THEN Max(0, Tokens - reply.v) ELSE NaN,
          reset     |-> (Bucket(call.t) + 1) * WindowMs]
    [] algo = "slidingWindow" ->
         [remaining |-> IF reply.kind = "int" THEN Max(0, Tokens - reply.v) ELSE NaN,
          reset     |-> (Bucket(call.t) + 1) * WindowMs]
    [] algo = "tokenBucket" ->
         LET remainingTokens == IF reply.kind = "arr" THEN reply.v[1]
                                ELSE TbRemainingShaFirst
             refilledAt      == IF reply.kind = "arr" THEN reply.v[2]
                                ELSE TbRemainingShaSecond
         IN [remaining |-> remainingTokens,
             reset     |-> IF reply.kind = "arr"
                              /\ refilledAt = tokenBucketIdentifierNotFound
                           THEN t + conf.interval
                           ELSE refilledAt + conf.interval]

limitResult(call, reply) ==
  CASE algo = "fixedWindow" -> fixedWindowLimit(call, reply)
    [] algo = "slidingWindow" -> slidingWindowLimit(call, reply)
    [] algo = "tokenBucket" -> tokenBucketLimit(call, reply)

\* ---------------------------------------------------------------- responses
\* The response a limit call returns to its caller, with what the store did
\* for it: src tells where the answer came from ("script": the reply of the
\* limit script, "load": the reply of SCRIPT LOAD, "error": the call threw,
\* "timeout": the watchdog), used0 and weighted are what the script read,
\* consumed is the change of the units used for the identifier.
LimitResponse(call, r, src, s0, s1) ==
  [op |-> "limit", id |-> call.id, inc |-> call.inc, t |-> call.t,
   success |-> r.success, limit |-> r.limit, remaining |-> r.remaining,
   reset |-> r.reset,
   reason |-> IF "reason" \in DOMAIN r THEN r.reason ELSE "undefined",
   src |-> src,
   used0 |-> Used(s0, call),
   weighted |-> IF algo = "slidingWindow"
                THEN WeightedPrevious(Get(s0, PreviousKey(call)), call.t, WindowMs)
                ELSE 0,
   consumed |-> Used(s1, call) - Used(s0, call),
   refills |-> IF algo = "tokenBucket" /\ Exists(s0, key(call.id))
                  /\ call.t >= s0[key(call.id)].refilledAt + conf.interval
               THEN Floor(call.t - s0[key(call.id)].refilledAt, conf.interval)
               ELSE 0,
   afterReset |-> call.mark]

RemainingResponse(call, r, src, s0) ==
  [op |-> "getRemaining", id |-> call.id, t |-> call.t,
   remaining |-> r.remaining, reset |-> r.reset, src |-> src,
   used0 |-> Used(s0, call),
   weighted |-> IF algo = "slidingWindow"
                THEN WeightedPrevious(Get(s0, PreviousKey(call)), call.t, WindowMs)
                ELSE 0]

\* after: whether the hash of the identifier is still in the store
ResetResponse(call, src, s1) ==
  [op |-> "reset", id |-> call.id, t |-> call.t, src |-> src,
   after |-> Exists(s1, key(call.id))]

\* What the caller gets when the store's answer to the call's last command
\* arrives: reply from keyspace s0, leaving keyspace s1, at time t.
Response(call, reply, src, s0, s1, t) ==
  CASE call.op = "limit" ->
         LimitResponse(call, limitResult(call, reply), src, s0, s1)
    [] call.op = "getRemaining" ->
         RemainingResponse(call, getRemainingResult(call, reply, t), src, s0)
    [] call.op = "reset" -> ResetResponse(call, src, s1)

\* The error a call throws at its caller: the command of the call that failed
\* (phase) and the error as the store or the connection gave it.
Thrown(call, e) ==
  [op |-> "throw", of |-> call.op, id |-> call.id, t |-> call.t,
   error |-> e, phase |-> call.phase]

None == <<>>

OthersOn(c, id) ==
  \E d \in Clients \ {c} : calls[d] # Idle /\ calls[d].id = id

\* A call for id starts: a limit call in flight for id is no longer the only
\* call that follows the reset of id.
Unmark(id) ==
  [d \in Clients |->
     IF calls[d] # Idle /\ calls[d].id = id THEN [calls[d] EXCEPT !.mark = FALSE]
     ELSE calls[d]]

\* The limit calls in flight in cs (sent and not yet answered by the store).
InFlight(cs) == Cardinality({d \in Clients : cs[d] # Idle /\ cs[d].op = "limit"})

\* ------------------------------------------------------- blockUntilReady
ErrPositive     == <<"timeout must be positive">>
ErrInvalidReset == <<"[Invalid Reset]: This should not happen">>
Waits == {0 - 1, 0, TickMs, MaxWait}

\* a check that lets a zero wait pass
timeoutInvalid_negative(t) == t < 0

\* if (timeout <= 0) throw new Error("timeout must be positive")
timeoutInvalid(t) == t <= 0

\* Whether the budget of id is used up in keyspace s at time t: a limit with
\* rate 1 run then would be refused by the algorithm.
Exhausted(s, id, t) ==
  CASE algo = "fixedWindow" ->
         Get(s, BucketKey(key(id), Bucket(t))) >= Tokens
    [] algo = "slidingWindow" ->
         slidingWindowFull(
           WeightedPrevious(Get(s, BucketKey(key(id), Bucket(t) - 1)), t, WindowMs),
           Get(s, BucketKey(key(id), Bucket(t))), Tokens)
    [] algo = "tokenBucket" ->
         Refilled(s, key(id), conf.maxTokens, conf.interval, conf.refillRate,
                  t).tokens < 1

\* Whether the budget of id, left alone in keyspace s, has capacity again at
\* some time after t and before the deadline d. Left alone the budget only
\* grows while a window lasts, so the last instant of each window and the
\* last instant before d decide.
Available(s, id, t, d) ==
  \E u \in {d - 1} \cup {k * WindowMs - 1 : k \in (Bucket(t) + 1)..Bucket(d - 1)} :
    u > t /\ ~Exhausted(s, id, u)

\* What blockUntilReady hands to its caller: via tells which break of the
\* loop was taken ("limit": res.success, "deadline": Date.now() > deadline).
BlockResult(b, res, via) ==
  [op |-> "blockUntilReady", id |-> b.id, t0 |-> b.t0, deadline |-> b.deadline,
   exh |-> b.exh, avail |-> b.avail, slept |-> b.slept, via |-> via,
   res |-> res]

BlockThrown(b, e) ==
  [op |-> "throw", of |-> "blockUntilReady", id |-> b.id, t0 |-> b.t0,
   deadline |-> b.deadline, error |-> e]

\* The loop of blockUntilReady after `res = await this.limit(identifier)`:
\* break on success, fail on reset 0, otherwise sleep until
\* Math.min(res.reset, deadline).
Resume(c, r) ==
  LET b == block[c]
  IN IF b = NoBlock THEN block' = block /\ ret' = NoResp
     ELSE IF r.success
     THEN /\ block' = [block EXCEPT ![c] = NoBlock]
          /\ ret' = BlockResult(b, r, "limit")
     ELSE IF r.reset = 0
     THEN /\ block' = [block EXCEPT ![c] = NoBlock]
          /\ ret' = BlockThrown(b, ErrInvalidReset)
     ELSE /\ block' = [block EXCEPT ![c] =
                         [b EXCEPT !.st = "sleep",
                                   !.wake = Min(r.reset, b.deadline),
                                   !.slept = now,
                                   !.res = r]]
          /\ ret' = NoResp

\* `await this.limit(identifier)` throws: blockUntilReady does not catch.
ResumeThrow(c, e) ==
  LET b == block[c]
  IN IF b = NoBlock THEN block' = block /\ ret' = NoResp
     ELSE /\ block' = [block EXCEPT ![c] = NoBlock]
          /\ ret' = BlockThrown(b, e)

\* The response computed from the store's answer for a limit call whose
\* caller the watchdog has answered already: the promise of
\* getRatelimitResponse resolves with it and nobody is given it.
Late(r) == [r EXCEPT !.op = "late"]

\* a limit whose finally block leaves the watchdog timer as it is
abort_kept(c) == timer

\* finally { controller.abort() }: the abort listener of the watchdog runs
\* clearTimeout(timeoutId)
abort(c) == [timer EXCEPT ![c] = "none"]

\* The bookkeeping done when client c's call is answered with response r;
\* ok: the run is still plain after this step.
Settle(c, r, ok) ==
  LET call == calls[c]
      counted == algo = "fixedWindow" /\ call.op = "limit" /\ ~call.settled
                 /\ r.success
  IN /\ calls' = [calls EXCEPT ![c] = Idle]
     /\ last' = IF call.op = "limit" /\ call.settled THEN Late(r) ELSE r
     /\ plain' = ok
     /\ admitted' = IF ~ok THEN [i \in Ids |-> 0]
                    ELSE IF counted
                    THEN [admitted EXCEPT ![call.id] = @ + call.inc]
                    ELSE admitted
     /\ fresh' = IF call.op = "reset"
                 THEN (IF OthersOn(c, call.id) THEN fresh ELSE call.id)
                 ELSE fresh
     /\ IF call.op = "limit" /\ ~call.settled
        THEN Resume(c, r)
        ELSE block' = block /\ ret' = NoResp
     /\ skew' = IF skew # Off /\ call.op = "limit" /\ ~call.settled
                   /\ r.src = "script" /\ r.success /\ call.inc = 1
                THEN [skew EXCEPT !.n = @ + 1]
                ELSE skew
     /\ timer' = IF call.op = "limit" /\ ~call.settled THEN abort(c) ELSE timer

\* Client c's call fails with error e: the caller gets the error unless the
\* watchdog has answered it already.
Throw(c, e) ==
  LET call == calls[c]
  IN /\ calls' = [calls EXCEPT ![c] = Idle]
     /\ last' = IF call.op = "limit" /\ call.settled THEN NoResp
                ELSE Thrown(call, e)
     /\ IF call.op = "limit" /\ ~call.settled
        THEN ResumeThrow(c, e)
        ELSE block' = block /\ ret' = NoResp
     /\ timer' = IF call.op = "limit" /\ ~call.settled THEN abort(c) ELSE timer
     /\ UNCHANGED <<admitted, fresh, plain, skew>>

\* safeEval's catch branch for client c's call, EVALSHA having failed with e.
Caught(c, e) ==
  IF safeEvalCatch(e) = "load"
  THEN /\ calls' = [calls EXCEPT ![c].phase = "load", ![c].err = e]
       /\ last' = NoResp
       /\ ret' = NoResp
       /\ UNCHANGED <<admitted, fresh, plain, block, skew, timer>>
  ELSE Throw(c, e)

\* ------------------------------------------------------------------ actions
\* Ratelimit.tokenBucket(refillRate, interval, maxTokens)
Configured ==
  [refillRate |-> RefillRate, interval |-> IntervalMs, maxTokens |-> MaxTokens]

Init ==
  /\ algo \in Algos
  /\ now = StartTime
  /\ store = <<>>
  /\ scripts \in {{}, ScriptNames}
  /\ calls = [c \in Clients |-> Idle]
  /\ last = NoResp
  /\ admitted = [i \in Ids |-> 0]
  /\ fresh = None
  /\ plain = TRUE
  /\ timeout \in {0, TimeoutMs}
  /\ block = [c \in Clients |-> NoBlock]
  /\ ret = NoResp
  /\ skew = Off
  /\ conf = Configured
  /\ timer = [c \in Clients |-> "none"]

\* The calls are bounded: under fixed window no limit call is made that
\* takes the counter of its bucket beyond MaxCount, and where the admissions
\* are counted none is made once more than MaxCount were counted.
MayLimit(id, rate) ==
  /\ algo = "fixedWindow" =>
       Get(store, BucketKey(key(id), Bucket(now))) + incrementBy(rate) <= MaxCount
  /\ skew # Off => skew.n <= MaxCount

\* BaseRatelimit.limit up to the first await: the algorithm reads Date.now(),
\* derives its keys and incrementBy, and safeEval sends EVALSHA;
\* createTimedOutResponse sets the watchdog timer, whatever config.timeout.
StartLimit(c, id, rate) ==
  /\ calls' = [Unmark(id) EXCEPT ![c] =
                 [op |-> "limit", id |-> id, rate |-> rate,
                  inc |-> incrementBy(rate),
                  t |-> now, phase |-> "evalsha", settled |-> FALSE,
                  mark |-> fresh = id /\ ~OthersOn(c, id), err |-> None]]
  /\ fresh' = IF fresh = id THEN None ELSE fresh
  /\ last' = NoResp
  /\ skew' = IF skew = Off THEN Off
             ELSE [skew EXCEPT !.peak = Max(@, InFlight(calls) + 1)]
  /\ timer' = [timer EXCEPT ![c] = "armed"]

\* A caller calls limit(id, {rate}).
CallLimit(c, id, rate) ==
  /\ calls[c] = Idle /\ block[c] = NoBlock
  /\ MayLimit(id, rate)
  /\ StartLimit(c, id, rate)
  /\ ret' = NoResp
  /\ UNCHANGED <<algo, conf, now, store, scripts, admitted, plain, timeout,
                 block>>

\* BaseRatelimit.getRemaining up to the first await
CallGetRemaining(c, id) ==
  /\ calls[c] = Idle /\ block[c] = NoBlock
  /\ ret' = NoResp
  /\ calls' = [calls EXCEPT ![c] =
                 [op |-> "getRemaining", id |-> id, rate |-> 0, inc |-> 0,
                  t |-> now,
                  phase |-> "evalsha", settled |-> FALSE, mark |-> FALSE,
                  err |-> None]]
  /\ last' = NoResp
  /\ UNCHANGED <<algo, conf, now, store, scripts, admitted, fresh, plain,
                 timeout, block, skew, timer>>

\* BaseRatelimit.resetUsedTokens up to the first await
CallReset(c, id) ==
  /\ calls[c] = Idle /\ block[c] = NoBlock
  /\ ret' = NoResp
  /\ calls' = [Unmark(id) EXCEPT ![c] =
                 [op |-> "reset", id |-> id, rate |-> 0, inc |-> 0, t |-> now,
                  phase |-> "evalsha", settled |-> FALSE, mark |-> FALSE,
                  err |-> None]]
  /\ fresh' = IF fresh = id THEN None ELSE fresh
  /\ last' = NoResp
  /\ UNCHANGED <<algo, conf, now, store, scripts, admitted, plain, timeout,
                 block, skew, timer>>

\* a store step that runs the script and leaves the call to be sent again
StoreRun_again(c) ==
  LET call == calls[c]
      out  == RunScript(store, call, now)
  IN /\ call # Idle /\ call.phase = "evalsha"
     /\ call.op \in scripts
     /\ call.op = "limit" => MayLimit(call.id, call.rate)
     /\ store' = out.store
     /\ last' = NoResp /\ ret' = NoResp
     /\ UNCHANGED <<algo, conf, now, scripts, calls, admitted, fresh, plain,
                    timeout, block, skew, timer>>

\* a store that drops the command of a call the watchdog has answered
StoreRun_revoked(c) ==
  LET call == calls[c]
      out  == RunScript(store, call, now)
      kept == call.op = "limit" /\ call.settled
  IN /\ call # Idle /\ call.phase = "evalsha"
     /\ call.op \in scripts
     /\ store' = IF kept THEN store ELSE out.store
     /\ IF out.reply.kind = "err"
        THEN Throw(c, <<"ERR", out.reply.v>>)
        ELSE Settle(c, Response(call, out.reply, "script", store, out.store, now),
                    plain /\ call.op # "reset"
                          /\ ~(call.op = "limit" /\ call.t # now))
     /\ UNCHANGED <<algo, conf, now, scripts, timeout>>

\* safeEval, EVALSHA succeeds: the store runs the cached script in one step
\* and the caller continues with its reply.
StoreRun(c) ==
  LET call == calls[c]
      out  == RunScript(store, call, now)
  IN /\ call # Idle /\ call.phase = "evalsha"
     /\ call.op \in scripts
     /\ store' = out.store
     /\ IF out.reply.kind = "err"
        THEN Throw(c, <<"ERR", out.reply.v>>)
        ELSE Settle(c, Response(call, out.reply, "script", store, out.store, now),
                    plain /\ call.op # "reset"
                          /\ ~(call.op = "limit" /\ call.t # now))
     /\ UNCHANGED <<algo, conf, now, scripts, timeout>>

\* safeEval, EVALSHA fails with NOSCRIPT (the script is not in the store's
\* cache): the catch branch decides on the text of the error.
StoreNoScript(c, e) ==
  LET call == calls[c]
  IN /\ call # Idle /\ call.phase = "evalsha"
     /\ call.op \notin scripts
     /\ e \in NoScriptErrors
     /\ Caught(c, e)
     /\ UNCHANGED <<algo, conf, now, store, scripts, timeout>>

\* safeEval, EVALSHA fails with another error of the store or of the
\* connection, the command not having run: the catch branch decides on the
\* text of the error.
StoreError(c, e) ==
  LET call == calls[c]
  IN /\ call # Idle /\ call.phase = "evalsha"
     /\ e \in OtherErrors
     /\ Caught(c, e)
     /\ UNCHANGED <<algo, conf, now, store, scripts, timeout>>

\* safeEval, SCRIPT LOAD fails: the catch branch has no handler of its own,
\* the error is thrown.
LoadError(c, e) ==
  LET call == calls[c]
  IN /\ call # Idle /\ call.phase = "load"
     /\ e \in OtherErrors
     /\ Throw(c, e)
     /\ UNCHANGED <<algo, conf, now, store, scripts, timeout>>

\* safeEval, the catch branch returns the reply of SCRIPT LOAD (the SHA of the
\* script) as the result of the call; the script is cached and not run.
StoreLoad(c) ==
  LET call == calls[c]
  IN /\ call # Idle /\ call.phase = "load"
     /\ scripts' = scripts \cup {call.op}
     /\ Settle(c, Response(call, ShaReply, "load", store, store, now), plain)
     /\ UNCHANGED <<algo, conf, now, store, timeout>>

\* a watchdog that races whatever config.timeout is
WatchdogDue_always(c) ==
  /\ calls[c] # Idle /\ calls[c].op = "limit" /\ ~calls[c].settled
  /\ timer[c] = "armed"
  /\ now >= calls[c].t + timeout

\* The watchdog of client c's limit call is due: setTimeout(resolve, timeout)
\* has run out without being cleared and neither promise of the race has
\* settled.
WatchdogDue(c) ==
  /\ calls[c] # Idle /\ calls[c].op = "limit" /\ ~calls[c].settled
  /\ timeout > 0
  /\ timer[c] = "armed"
  /\ now >= calls[c].t + timeout

\* The watchdog of BaseRatelimit.limit wins the race: the caller gets the
\* timeout response; the command already sent stays in flight.
Timeout(c) ==
  LET call == calls[c]
  IN /\ WatchdogDue(c)
     /\ calls' = [calls EXCEPT ![c].settled = TRUE]
     /\ last' = LimitResponse(call, createTimedOutResponse, "timeout",
                              store, store)
     /\ Resume(c, LimitResponse(call, createTimedOutResponse, "timeout",
                                store, store))
     /\ timer' = [timer EXCEPT ![c] = "none"]
     /\ UNCHANGED <<algo, conf, now, store, scripts, admitted, fresh, plain,
                    timeout, skew>>

\* With timeout = 0 the watchdog's promise is not in the race: its timer,
\* set with delay 0, runs out and resolves a promise nobody awaits.
Lapse(c) ==
  /\ timer[c] = "armed"
  /\ timeout = 0
  /\ timer' = [timer EXCEPT ![c] = "none"]
  /\ last' = NoResp /\ ret' = NoResp
  /\ UNCHANGED <<algo, conf, now, store, scripts, calls, admitted, fresh,
                 plain, timeout, block, skew>>

\* A caller calls blockUntilReady(id, wait): a wait that is not positive is
\* refused at once; otherwise the deadline is fixed and the loop makes its
\* first limit call.
CallBlockUntilReady(c, id, wait) ==
  /\ calls[c] = Idle /\ block[c] = NoBlock
  /\ IF timeoutInvalid(wait)
     THEN /\ ret' = BlockThrown([id |-> id, t0 |-> now, deadline |-> now + wait],
                                 ErrPositive)
          /\ last' = NoResp
          /\ UNCHANGED <<calls, fresh, block, skew, timer>>
     ELSE /\ MayLimit(id, 0)
          /\ StartLimit(c, id, 0)
          /\ block' = [block EXCEPT ![c] =
                          [st |-> "limit", id |-> id, t0 |-> now,
                           deadline |-> now + wait,
                           exh |-> Exhausted(store, id, now),
                           avail |-> Available(store, id, now, now + wait),
                           wake |-> 0, slept |-> 0, res |-> NoResp]]
          /\ ret' = NoResp
  /\ UNCHANGED <<algo, conf, now, store, scripts, admitted, plain, timeout>>

\* The sleep of client c's blockUntilReady is over and the loop can go on:
\* past the deadline it returns, otherwise it calls limit again.
WakeDue(c) ==
  /\ block[c] # NoBlock /\ block[c].st = "sleep"
  /\ now >= block[c].wake
  /\ now > block[c].deadline \/ MayLimit(block[c].id, 0)

\* blockUntilReady after `await new Promise((r) => setTimeout(r, wait))`
Wake(c) ==
  LET b == block[c]
  IN /\ WakeDue(c)
     /\ IF now > b.deadline
        THEN /\ block' = [block EXCEPT ![c] = NoBlock]
             /\ ret' = BlockResult(b, b.res, "deadline")
             /\ last' = NoResp
             /\ UNCHANGED <<calls, fresh, skew, timer>>
        ELSE /\ StartLimit(c, b.id, 0)
             /\ block' = [block EXCEPT ![c].st = "limit"]
             /\ ret' = NoResp
     /\ UNCHANGED <<algo, conf, now, store, scripts, admitted, plain, timeout>>

\* Time passes; keys whose expiry time has passed are gone. The units counted
\* for the bucket of now start again when a new bucket begins. A timer that
\* is due runs before the clock is read again.
Tick ==
  /\ now + TickMs <= MaxTime
  /\ \A c \in Clients : ~WatchdogDue(c) /\ ~WakeDue(c)
  /\ ret' = NoResp
  /\ now' = now + TickMs
  /\ store' = Expire(store, now + TickMs)
  /\ last' = NoResp
  /\ admitted' = IF Bucket(now + TickMs) # Bucket(now)
                 THEN [i \in Ids |-> 0] ELSE admitted
  /\ skew' = IF skew # Off /\ Bucket(now + TickMs) # Bucket(now)
             THEN [on |-> TRUE, n |-> 0, peak |-> InFlight(calls)]
             ELSE skew
  /\ UNCHANGED <<algo, conf, scripts, calls, fresh, plain, timeout, block,
                 timer>>

\* The calls the callers in C make with the identifiers in I.
CallsOver(C, I) ==
  \/ \E c \in C, id \in I, rate \in Rates : CallLimit(c, id, rate)
  \/ \E c \in C, id \in I : CallGetRemaining(c, id)
  \/ \E c \in C, id \in I : CallReset(c, id)

\* What the store and the watchdog do for the callers in C, the store and the
\* connection failing with the errors in E only.
AnswersOver(C, N, E) ==
  \/ \E c \in C : StoreRun(c)
  \/ \E c \in C, e \in N : StoreNoScript(c, e)
  \/ \E c \in C, e \in E : StoreError(c, e)
  \/ \E c \in C, e \in E : LoadError(c, e)
  \/ \E c \in C : StoreLoad(c)
  \/ \E c \in C : Timeout(c)

\* A store whose only error is NOSCRIPT, worded as Redis words it, answering
\* a limiter without watchdog.
HealthyOver(C) ==
  \/ \E c \in C : StoreRun(c)
  \/ \E c \in C : StoreNoScript(c, ErrNoScript)
  \/ \E c \in C : StoreLoad(c)

\* A limiter constructed with timeout: 0.
InitNoWatchdog == Init /\ timeout = 0

\* The steps of the callers in C using the identifiers in I.
NextOver(C, I) ==
  \/ CallsOver(C, I)
  \/ AnswersOver(C, NoScriptErrors, OtherErrors)
  \/ Tick

\* One caller at a time, one identifier.
Solo == {"c1"}
One == {<<"u">>}
Next == NextOver(Solo, One)
Spec == Init /\ [][Next]_vars

\* One caller at a time, two identifiers, one a prefix of the other; no
\* watchdog, the store healthy.
NextIds == CallsOver(Solo, Ids) \/ HealthyOver(Solo) \/ Tick
SpecIds == InitNoWatchdog /\ [][NextIds]_vars

\* Two callers making limit calls for one identifier concurrently, the store
\* healthy.
NextBoth ==
  \/ \E c \in Clients, id \in One, rate \in Rates : CallLimit(c, id, rate)
  \/ HealthyOver(Clients)
  \/ \E c \in Clients : Timeout(c)
  \/ Tick
SpecBoth == Init /\ [][NextBoth]_vars

\* Two callers making limit calls for one identifier concurrently under
\* fixed window or token bucket, the admissions being counted from each
\* multiple of the window on.
InitSkew ==
  /\ algo \in {"fixedWindow", "tokenBucket"}
  /\ now = StartTime
  /\ store = <<>>
  /\ scripts \in {{}, ScriptNames}
  /\ calls = [c \in Clients |-> Idle]
  /\ last = NoResp
  /\ admitted = [i \in Ids |-> 0]
  /\ fresh = None
  /\ plain = TRUE
  /\ timeout \in {0, TimeoutMs}
  /\ block = [c \in Clients |-> NoBlock]
  /\ ret = NoResp
  /\ skew = [on |-> TRUE, n |-> 0, peak |-> 0]
  /\ conf = Configured
  /\ timer = [c \in Clients |-> "none"]
SpecSkew == InitSkew /\ [][NextBoth]_vars

\* Token-bucket limiters of several configurations, among them a capacity
\* below the largest rate and an interval of one tick: one caller making limit
\* calls, no watchdog, the store healthy.
Configs ==
  [refillRate : {RefillRate, RefillRate + 1}, interval : {TickMs, IntervalMs},
   maxTokens : {1, MaxTokens}]
InitConf ==
  /\ algo = "tokenBucket"
  /\ conf \in Configs
  /\ now = StartTime
  /\ store = <<>>
  /\ scripts \in {{}, ScriptNames}
  /\ calls = [c \in Clients |-> Idle]
  /\ last = NoResp
  /\ admitted = [i \in Ids |-> 0]
  /\ fresh = None
  /\ plain = TRUE
  /\ timeout = 0
  /\ block = [c \in Clients |-> NoBlock]
  /\ ret = NoResp
  /\ skew = Off
  /\ timer = [c \in Clients |-> "none"]
NextConf ==
  \/ \E c \in Solo, id \in One, rate \in Rates : CallLimit(c, id, rate)
  \/ HealthyOver(Solo)
  \/ Tick
SpecConf == InitConf /\ [][NextConf]_vars

\* One caller at a time, one identifier, the timer of a limiter without
\* watchdog being followed as well.
NextTimers ==
  \/ Next
  \/ \E c \in Solo : Lapse(c)
SpecTimers == Init /\ [][NextTimers]_vars

\* One caller at a time, one identifier, with blockUntilReady among the calls.
NextBlock ==
  \/ Next
  \/ \E c \in Solo, id \in One, wait \in Waits : CallBlockUntilReady(c, id, wait)
  \/ \E c \in Solo : Wake(c)
SpecBlock == Init /\ [][NextBlock]_vars

\* The store has the limiter's scripts cached from the start (a limiter with
\* the same scripts ran against it before).
InitCached == Init /\ scripts = ScriptNames
SpecCached == InitCached /\ [][Next]_vars
SpecIdsCached == InitNoWatchdog /\ scripts = ScriptNames /\ [][NextIds]_vars
SpecBothCached == InitCached /\ [][NextBoth]_vars

\* ------------------------------------------------------------------ claims
\* The response in `last` is one limit returned; it is store-sourced when it
\* is not the watchdog's, and computed from the reply of the limit script
\* when EVALSHA found the script.
Returned   == last.op = "limit"
FromStore  == Returned /\ last.src # "timeout"
FromScript == Returned /\ last.src = "script"

\* C1: fixed window with budget Tokens. For every limit call answered by the
\* store, with count the bucket counter the call found plus its incrementBy,
\* the response has success = (count <= Tokens),
\* remaining = max(0, Tokens - count) and limit = Tokens.
C1_FixedWindowResponse ==
  (algo = "fixedWindow" /\ FromStore) =>
    LET count == last.used0 + last.inc
    IN /\ last.success = (count <= Tokens)
       /\ last.remaining = Max(0, Tokens - count)
       /\ last.limit = Tokens

\* The units of limit calls for id that were answered success=true in the
\* bucket of now: those the store answered, and the one the watchdog has just
\* answered.
AnsweredSuccess(id) ==
  admitted[id]
  + (IF Returned /\ last.src = "timeout" /\ last.id = id /\ last.success
        /\ Bucket(last.t) = Bucket(now)
     THEN last.inc ELSE 0)

\* C2 as stated: fixed window, no resetUsedTokens, every script run at its
\* call's clock reading. For every identifier the total incrementBy of the
\* limit calls answered success=true in the bucket of now is at most Tokens,
\* the timeout responses (success=true) counted with the others.
C2_AdmissionBoundAllResponses ==
  (algo = "fixedWindow" /\ plain) =>
    \A id \in Ids : AnsweredSuccess(id) <= Tokens

\* C2 amended: fixed window, no resetUsedTokens, every script run at its
\* call's clock reading. For every identifier the total incrementBy of the
\* limit calls that the store answered success=true in the bucket of now is
\* at most Tokens.
C2_AdmissionBound ==
  (algo = "fixedWindow" /\ plain) =>
    \A id \in Ids : admitted[id] <= Tokens

\* C2, the case: the budget of the bucket is used up by admitted calls and
\* the store has just refused a further call.
C2_BudgetUsedUp ==
  /\ algo = "fixedWindow" /\ plain
  /\ FromScript /\ ~last.success
  /\ admitted[last.id] = Tokens

\* C3: sliding window with budget Tokens. A limit call answered by the store
\* has success=true exactly when the current counter it found plus its
\* incrementBy plus floor((1 - p) * previousCounter) is at most Tokens,
\* p = (now mod window) / window.
C3_SlidingWindowAdmission ==
  (algo = "slidingWindow" /\ FromStore) =>
    last.success = (last.used0 + last.inc + last.weighted <= Tokens)

\* C4: token bucket with capacity MaxTokens. A limit response computed from
\* the script's reply has success=true exactly when the bucket, after refill,
\* held at least incrementBy tokens, and its remaining is the number of tokens
\* left in the bucket after the call (0 when refused).
C4_TokenBucketResponse ==
  (algo = "tokenBucket" /\ FromScript) =>
    LET held == MaxTokens - last.used0
    IN /\ last.success = (held >= last.inc)
       /\ last.remaining = (IF held >= last.inc THEN held - last.inc ELSE 0)

\* C5: every response limit returns from the script's reply, admitted or
\* rejected, and the timeout response, has 0 <= remaining <= limit, under
\* each algorithm.
C5_RemainingInRange ==
  (Returned /\ last.src \in {"script", "timeout"}) =>
    (0 <= last.remaining /\ last.remaining <= last.limit)

\* C6: every response limit returns from the script's reply has a reset that
\* is not earlier than the moment limit was called, under each algorithm; the
\* timeout response has reset 0; under fixed window reset is at most one
\* window after the call.
C6_ResetTimestamp ==
  (Returned /\ last.src \in {"script", "timeout"}) =>
    IF last.src = "timeout" THEN last.reset = 0
    ELSE /\ last.reset >= last.t
         /\ algo = "fixedWindow" => last.reset <= last.t + WindowMs

\* C7: the one store step of a limit call changes the units consumed for its
\* identifier by exactly incrementBy = max(1, rate) or by 0, and a limit call
\* whose store-sourced response has success=true consumed exactly incrementBy,
\* under each algorithm.
C7_ConsumesAllOrNothing ==
  FromScript =>
    /\ last.consumed \in {0, last.inc}
    /\ last.success => last.consumed = last.inc

\* C8: fixed window and sliding window. The first limit(id) with rate 1 after
\* resetUsedTokens(id) completed, with no other call for id in between or in
\* flight, is answered by the store with success=true and
\* remaining = limit - 1.
C8_ResetEffective ==
  (algo \in {"fixedWindow", "slidingWindow"} /\ FromStore
     /\ last.afterReset /\ last.inc = 1) =>
    (last.success /\ last.remaining = last.limit - 1)

\* C9: token bucket. When resetUsedTokens(id) has run the reset script, the
\* hash at key prefix:id no longer exists, and the first limit(id) with rate 1
\* after it is answered from the script's reply with success=true and
\* remaining = MaxTokens - 1.
C9_TokenBucketReset ==
  algo = "tokenBucket" =>
    /\ (last.op = "reset" /\ last.src = "script") => ~last.after
    /\ (FromScript /\ last.afterReset /\ last.inc = 1) =>
         (last.success /\ last.remaining = MaxTokens - 1)

\* What limit(id, rate) or getRemaining(id) would return if it were called now
\* and served by the store at once.
Answer(id, op, rate) ==
  LET call == [op |-> op, id |-> id, inc |-> incrementBy(rate), t |-> now,
               phase |-> "evalsha", settled |-> FALSE, mark |-> FALSE,
               err |-> None]
      reply == IF op \in scripts THEN RunScript(store, call, now).reply
               ELSE ShaReply
  IN IF op = "limit" THEN limitResult(call, reply)
     ELSE getRemainingResult(call, reply, now)

\* The store answers client c's limit or getRemaining call in this step.
Served(c) ==
  /\ calls[c] # Idle /\ calls[c].op \in {"limit", "getRemaining"}
  /\ calls[c].phase \in {"evalsha", "load"}
  /\ calls'[c] = Idle

\* C10: isolation of limit and getRemaining. A step in which the store
\* answers limit(id1) or getRemaining(id1) leaves unchanged what limit and
\* getRemaining would return for every other identifier id2, so that the
\* responses to the calls on id2 do not depend on the calls on id1 that
\* precede them.
C10_Isolation ==
  [][\A c \in Clients :
       Served(c) =>
         \A id \in Ids \ {calls[c].id}, op \in {"limit", "getRemaining"},
            rate \in Rates :
           Answer(id, op, rate)' = Answer(id, op, rate)]_vars

\* The keys under which the algorithm keeps the state of identifier id: the
\* hash prefix:id (token bucket) or the counters prefix:id:<bucket>.
BucketNumbers == 0..Bucket(MaxTime)
KeysOf(id) ==
  IF algo = "tokenBucket" THEN {key(id)}
  ELSE {BucketKey(key(id), b) : b \in BucketNumbers}

\* What the store holds for identifier id.
StateOf(s, id) == [k \in KeysOf(id) \cap DOMAIN s |-> s[k]]

\* The store answers client c's resetUsedTokens call in this step.
ResetServed(c) ==
  /\ calls[c] # Idle /\ calls[c].op = "reset"
  /\ calls[c].phase \in {"evalsha", "load"}
  /\ calls'[c] = Idle

\* C11: isolation of reset. A step in which the store answers
\* resetUsedTokens(id1) leaves the keys of every other identifier id2 as they
\* were, and with them what limit and getRemaining return for id2;
\* identifiers may contain ':'.
C11_ResetIsolation ==
  [][\A c \in Clients :
       ResetServed(c) =>
         \A id \in Ids \ {calls[c].id} :
           /\ StateOf(store, id)' = StateOf(store, id)
           /\ \A op \in {"limit", "getRemaining"}, rate \in Rates :
                Answer(id, op, rate)' = Answer(id, op, rate)]_vars

\* Client c's limit call has returned nothing to its caller yet.
Pending(c) == calls[c] # Idle /\ calls[c].op = "limit" /\ ~calls[c].settled

\* C12: fail-open on a silent store. With timeout > 0, a limit call that the
\* store has not answered timeout ms after it was made returns, at the first
\* clock reading from then on, exactly {success: true, limit: 0, remaining: 0,
\* reset: 0, reason: "timeout"}; no limit call stays pending beyond that.
C12_FailOpen ==
  /\ \A c \in Clients :
       (Pending(c) /\ timeout > 0) => now < calls[c].t + timeout + TickMs
  /\ (Returned /\ last.src = "timeout") =>
       /\ last.success = TRUE /\ last.limit = 0 /\ last.remaining = 0
       /\ last.reset = 0 /\ last.reason = "timeout"
       /\ timeout > 0
       /\ now >= last.t + timeout /\ now < last.t + timeout + TickMs

\* C12, the case: the store stayed silent for timeout ms and the caller has
\* just been given the watchdog's response.
C12_WatchdogAnswered ==
  /\ Returned /\ last.src = "timeout"
  /\ now = last.t + timeout
  /\ \E c \in Clients : calls[c] # Idle /\ calls[c].settled

\* C14: with timeout = 0 no watchdog takes part: limit returns only what the
\* store answered, however late, never a response with reason "timeout"; and
\* with any timeout, a response computed from a store reply has no reason,
\* reason "timeout" being on the watchdog's response alone.
C14_NoWatchdog ==
  /\ timeout = 0 =>
       /\ ~(Returned /\ (last.src = "timeout" \/ last.reason = "timeout"))
       /\ \A c \in Clients : calls[c] # Idle => ~calls[c].settled
  /\ Returned => ((last.reason = "timeout") = (last.src = "timeout"))
  /\ FromStore => last.reason = "undefined"

\* C14, the case: timeout = 0 and the store's answer has just arrived later
\* than the default watchdog would have waited.
C14_LateAnswer ==
  /\ timeout = 0
  /\ FromScript /\ now >= last.t + TimeoutMs

\* C13: with timeout > 0 a transport error of the store call is not surfaced
\* by limit (the caller gets the permissive timeout response); transport
\* errors reach the caller of limit only when timeout = 0.
C13_TransportErrorMasked ==
  (last.op = "throw" /\ last.of = "limit" /\ last.error = ErrTransport) =>
    timeout = 0

\* SCRIPT LOAD succeeds for client c's call in this step and the call ends.
Loaded(c) ==
  /\ calls[c] # Idle /\ calls[c].phase = "load"
  /\ calls'[c] = Idle
  /\ scripts' # scripts

\* C15: script-cache miss recovery. A call whose EVALSHA failed with NOSCRIPT
\* ends, after SCRIPT LOAD, with the effect on the store and the result that
\* running its script gives (the retried EVALSHA), as for the same call
\* against a store that has the script cached.
C15_NoScriptRecovery ==
  [][\A c \in Clients :
       Loaded(c) =>
         LET out == RunScript(store, calls[c], now)
         IN /\ store' = out.store
            /\ last' # NoResp =>
                 last' = Response(calls[c], out.reply, "load", store,
                                  out.store, now)]_vars

\* C16: an EVALSHA error whose text does not contain NOSCRIPT is thrown as it
\* is, with no SCRIPT LOAD: a call is loading its script only after an error
\* that contains NOSCRIPT, and an error thrown for the EVALSHA of limit,
\* getRemaining or resetUsedTokens is the store's or the connection's error,
\* without NOSCRIPT in it.
C16_OtherErrorsRethrown ==
  /\ \A c \in Clients :
       (calls[c] # Idle /\ calls[c].phase = "load") =>
         includesNoscript(calls[c].err)
  /\ (last.op = "throw" /\ last.phase = "evalsha") =>
       (last.error \in OtherErrors /\ ~includesNoscript(last.error))

\* C16, the case: with timeout > 0 and before the watchdog is due, limit has
\* just failed with the error the store gave to EVALSHA.
C16_LimitFailed ==
  /\ last.op = "throw" /\ last.of = "limit" /\ last.phase = "evalsha"
  /\ last.error = ErrServer
  /\ timeout > 0 /\ now < last.t + timeout

\* The store answers client c's limit call in this step.
LimitServed(c) ==
  /\ calls[c] # Idle /\ calls[c].op = "limit"
  /\ calls[c].phase \in {"evalsha", "load"}
  /\ calls'[c] = Idle

\* C20: concurrent limit calls on one identifier are linearisable. Under
\* fixed window every limit call, whatever calls of other callers are in
\* flight, takes effect in one store step that adds its incrementBy to the
\* counter of its bucket and leaves the other calls as they were, and the
\* caller is answered from the count reached in that step: no increment is
\* lost, no count is observed twice, and the calls with count <= Tokens are
\* the ones answered success=true.
C20_Linearisable ==
  [][\A c \in Clients :
       (algo = "fixedWindow" /\ LimitServed(c)) =>
         LET call == calls[c]
             count == Get(store, CurrentKey(call)) + call.inc
         IN /\ Get(store', CurrentKey(call)) = count
            /\ \A d \in Clients \ {c} : calls'[d] = calls[d]
            /\ last' # NoResp =>
                 /\ last'.success = (count <= Tokens)
                 /\ last'.remaining = Max(0, Tokens - count)]_vars
\* blockUntilReady has ended in this state: it returned or threw.
BlockEnded == ret # NoResp

\* C17: blockUntilReady(id, t) with t <= 0, zero included, fails with
\* "timeout must be positive" before any limit call is made: in the step that
\* ends it no command is sent (the calls in flight are the same), the keyspace
\* and the script cache are unchanged, and no loop of blockUntilReady ever
\* runs with a deadline that is not after its start.
C17_NonPositiveWaitRefused ==
  /\ [](\A c \in Clients :
         block[c] # NoBlock => block[c].deadline > block[c].t0)
  /\ [][(ret' # NoResp /\ ret'.deadline <= ret'.t0)
          => /\ ret'.op = "throw" /\ ret'.error = ErrPositive
             /\ UNCHANGED <<calls, store, scripts, admitted>>]_vars

\* blockUntilReady(id, 0) has just been refused while the store holds keys.
C17_ZeroWaitRefused ==
  /\ BlockEnded /\ ret.op = "throw" /\ ret.error = ErrPositive
  /\ ret.deadline = ret.t0
  /\ Exhausted(store, ret.id, now)
\* blockUntilReady has returned a response in this state, having been called
\* when the budget of its identifier was used up.
BlockedReturn == BlockEnded /\ ret.op = "blockUntilReady" /\ ret.exh

\* C18: blockUntilReady called with the budget of id exhausted, no other
\* caller consuming and capacity due again before the deadline: it does not
\* return a rejection before the deadline has passed, and when it returns
\* success=true it has waited (it returns later than it was called) and, the
\* response being the store's, capacity was there: the limit call behind the
\* response consumed its unit.
C18_BlocksUntilReady ==
  (BlockedReturn /\ ret.avail) =>
    /\ ~ret.res.success => now > ret.deadline
    /\ ret.res.success => now > ret.t0
    /\ (ret.res.success /\ ret.res.src = "script")
         => ret.res.consumed = ret.res.inc
\* The budget as the limit call behind response r found it was used up: the
\* algorithm has no unit for the call.
FoundExhausted(r) ==
  CASE algo = "fixedWindow"   -> r.used0 >= Tokens
    [] algo = "slidingWindow" -> slidingWindowFull(r.weighted, r.used0, Tokens)
    [] algo = "tokenBucket"   -> MaxTokens - r.used0 < r.inc

\* C19: blockUntilReady with an insufficient deadline. It never schedules a
\* sleep that ends after the deadline; the response it returns is that of a
\* limit call started no later than the deadline; when it returns because the
\* deadline has passed, it does so at most one tick after the deadline or
\* after the answer of that limit call, whichever is later; and when the
\* store's response it returns found the budget exhausted, that response has
\* success=false and is returned only after the deadline.
C19_InsufficientDeadline ==
  /\ \A c \in Clients :
       (block[c] # NoBlock /\ block[c].st = "sleep")
         => block[c].wake <= block[c].deadline
  /\ (BlockEnded /\ ret.op = "blockUntilReady") =>
       /\ ret.res.t <= ret.deadline
       /\ ret.via = "deadline"
            => /\ now > ret.deadline
               /\ now <= Max(ret.deadline, ret.slept) + TickMs
       /\ (ret.res.src = "script" /\ FoundExhausted(ret.res))
            => (~ret.res.success /\ now > ret.deadline)
\* C21: fixed window, concurrent callers whose calls may reach the store after
\* their bucket has ended or their key has expired. The number of unit
\* requests the store answered success=true for the identifier within the
\* window of now is at most Tokens + concurrent_in_flight - 1, with
\* concurrent_in_flight the largest number of limit calls for the identifier
\* in flight at once in that window.
C21_ClockSkewBound ==
  (algo = "fixedWindow" /\ skew # Off /\ skew.peak >= 1) =>
    skew.n <= Tokens + skew.peak - 1
\* C22: under each algorithm the incrementBy a limit call sends to the store
\* is its rate when rate >= 1 and exactly 1 when the rate is omitted, zero or
\* negative; no limit script is invoked with an incrementBy below 1.
C22_RateNormalised ==
  \A c \in Clients :
    (calls[c] # Idle /\ calls[c].op = "limit") =>
      /\ calls[c].inc = (IF calls[c].rate >= 1 THEN calls[c].rate ELSE 1)
      /\ calls[c].inc >= 1

\* limit was called with a negative rate and its EVALSHA is on the way.
C22_NegativeRateSent ==
  \E c \in Clients :
    /\ calls[c] # Idle /\ calls[c].op = "limit" /\ calls[c].phase = "evalsha"
    /\ calls[c].rate < 0 /\ calls[c].inc = 1
\* The budget of the limiter's algorithm.
Budget == IF algo = "tokenBucket" THEN MaxTokens ELSE Tokens

\* getRemaining has just returned, everything since the identifier was fresh
\* having happened within one window (fixed and sliding window) or within
\* less than one refill interval (token bucket).
RemainingInFirstWindow ==
  /\ last.op = "getRemaining"
  /\ IF algo = "tokenBucket" THEN now < StartTime + IntervalMs
     ELSE Bucket(last.t) = Bucket(StartTime) /\ Bucket(now) = Bucket(StartTime)

\* C23: after limit calls on a fresh identifier that consumed u <= budget
\* units in total, all within the same window (token bucket: within less than
\* one refill interval), getRemaining returns remaining = budget - u, which
\* is the full budget for an identifier with no state.
C23_RemainingValue ==
  (RemainingInFirstWindow /\ last.used0 <= Budget) =>
    last.remaining = Budget - last.used0
\* C24: under each algorithm and in every reachable store state, the reset
\* timestamp getRemaining computes from the reply of its script is strictly
\* later than the time of the call.
C24_RemainingResetLater ==
  (last.op = "getRemaining" /\ last.src = "script") => last.reset > last.t
\* C25: token bucket. For every span of time, here each span from a multiple
\* of WindowMs to now, the number of unit limit calls the store answered
\* success=true within the span is at most
\* MaxTokens + RefillRate * elapsed / IntervalMs.
C25_TokenBucketBound ==
  (algo = "tokenBucket" /\ skew # Off) =>
    (skew.n - MaxTokens) * IntervalMs
      <= RefillRate * (now - Bucket(now) * WindowMs)
\* C26: token bucket. In every reachable store state the token count stored
\* for an identifier is an integer in [0, MaxTokens], however many refill
\* intervals have passed, and getRemaining never reports more than
\* MaxTokens.
C26_TokenCap ==
  algo = "tokenBucket" =>
    /\ \A k \in DOMAIN store : store[k].tokens \in 0..MaxTokens
    /\ last.op = "getRemaining" => last.remaining <= MaxTokens
\* The token-bucket limit script runs for client c's call in this step, on a
\* bucket the store holds, and the caller is given its answer.
RanOnBucket(c) ==
  /\ algo = "tokenBucket"
  /\ calls[c] # Idle /\ calls[c].op = "limit" /\ calls[c].phase = "evalsha"
  /\ calls'[c] = Idle
  /\ last'.op = "limit" /\ last'.src = "script"
  /\ Exists(store, key(calls[c].id))

\* C27: token bucket. Each execution of the limit script on stored state
\* (refilledAt, tokens) applies n = floor((now - refilledAt) / interval)
\* refills when now >= refilledAt + interval, giving
\* min(MaxTokens, tokens + n * RefillRate) tokens and refilledAt + n * interval,
\* and none otherwise; it stores that state less the units of the request
\* when the tokens suffice and leaves the bucket as it is when they do not.
\* So an exhausted bucket accepts a unit request once a full interval has
\* passed since refilledAt, and refilledAt only ever moves by whole multiples
\* of the interval while the key lives.
C27_RefillRule ==
  [][/\ \A c \in Clients :
          RanOnBucket(c) =>
            LET k   == key(calls[c].id)
                t   == calls[c].t
                inc == calls[c].inc
                due == t >= store[k].refilledAt + IntervalMs
                n   == (t - store[k].refilledAt) \div IntervalMs
                tokens     == IF due
                              THEN Min(MaxTokens, store[k].tokens + n * RefillRate)
                              ELSE store[k].tokens
                refilledAt == IF due THEN store[k].refilledAt + n * IntervalMs
                              ELSE store[k].refilledAt
            IN /\ Exists(store', k)
               /\ IF tokens >= inc
                  THEN /\ store'[k].tokens = tokens - inc
                       /\ store'[k].refilledAt = refilledAt
                  ELSE /\ store'[k].tokens = store[k].tokens
                       /\ store'[k].refilledAt = store[k].refilledAt
               /\ (store[k].tokens = 0 /\ inc = 1 /\ due)
                    => store'[k].tokens = tokens - 1
     /\ algo = "tokenBucket" =>
          \A k \in DOMAIN store \cap DOMAIN store' :
            /\ store'[k].refilledAt >= store[k].refilledAt
            /\ (store'[k].refilledAt - store[k].refilledAt) % IntervalMs = 0
    ]_vars

\* An exhausted bucket has just accepted a unit request, refills having been
\* due: the script applied them and consumed one token.
C27_RefilledAndAccepted ==
  /\ algo = "tokenBucket" /\ FromScript
  /\ last.inc = 1 /\ last.refills >= 1
  /\ last.used0 = MaxTokens - last.refills * RefillRate
  /\ last.consumed = 1 /\ last.success
\* The time to live the claim gives for a key holding v when a limit script
\* has written it.
ClaimedTtl(v) ==
  CASE algo = "fixedWindow"   -> WindowMs
    [] algo = "slidingWindow" -> 2 * WindowMs + 1000
    [] algo = "tokenBucket"   ->
         Ceil(MaxTokens - v.tokens, RefillRate) * IntervalMs * 2

\* C28: in every reachable store state every key carries an expiry that has
\* not passed, none is left without one; the step that creates a key sets
\* its time to live (fixed window: window; sliding window: 2 * window + 1000;
\* token bucket: ceil((MaxTokens - remaining) / RefillRate) * interval * 2),
\* which is positive, and under token bucket so does every accepted request.
C28_ExpiryInvariant ==
  /\ [](\A k \in DOMAIN store : store[k].exp # NoTtl /\ store[k].exp >= now)
  /\ [][\A k \in DOMAIN store' :
          (k \notin DOMAIN store
             \/ (algo = "tokenBucket" /\ store'[k] # store[k]))
            => /\ ClaimedTtl(store'[k]) > 0
               /\ store'[k].exp = now + ClaimedTtl(store'[k])]_vars

\* The sliding-window limit script has just created the key of its bucket,
\* with its time to live.
C28_KeyCreated ==
  /\ algo = "slidingWindow" /\ FromScript /\ last.used0 = 0 /\ last.consumed >= 1
  /\ \E k \in DOMAIN store : store[k].exp = now + 2 * WindowMs + 1000
\* C29: sliding window. The counter key of bucket b, once written, does not
\* expire before bucket b + 1 has ended: its expiry never lies before the end
\* of bucket b + 1, and the passing of time never removes it while the clock
\* is in bucket b or b + 1, so a call made in bucket b + 1 and served then
\* reads it as its previous counter.
C29_PreviousKeySurvives ==
  /\ [](algo = "slidingWindow" =>
          \A id \in Ids, b \in BucketNumbers :
            LET k == BucketKey(key(id), b)
            IN Exists(store, k) => store[k].exp >= (b + 2) * WindowMs)
  /\ [][algo = "slidingWindow" =>
          \A id \in Ids, b \in BucketNumbers :
            LET k == BucketKey(key(id), b)
            IN (Exists(store, k) /\ ~Exists(store', k) /\ now' # now)
                 => Bucket(now') > b + 1]_vars

\* getRemaining, called and served in the bucket after the one in which the
\* identifier's counter was written, has read that counter as previous.
C29_PreviousRead ==
  /\ algo = "slidingWindow"
  /\ last.op = "getRemaining" /\ last.src = "script"
  /\ Bucket(last.t) = Bucket(now)
  /\ last.weighted >= 1
  /\ Exists(store, BucketKey(key(last.id), Bucket(now) - 1))
\* Keyspace t is keyspace s with some keys removed and nothing else changed.
Removed(s, t) ==
  /\ DOMAIN t \subseteq DOMAIN s
  /\ \A k \in DOMAIN t : t[k] = s[k]

\* Client c's call of operation op gets an answer from the store in this step.
ServedOp(c, op) ==
  /\ calls[c] # Idle /\ calls[c].op = op
  /\ calls'[c] # calls[c]

\* C30: under each algorithm no step in which the store answers a
\* getRemaining call changes a key, a value or an expiry; the keyspace
\* changes only in steps that serve a limit call, in steps that serve a
\* resetUsedTokens call, which only remove keys, and when time passes, which
\* only removes keys.
C30_GetRemainingReadOnly ==
  [][/\ \A c \in Clients : ServedOp(c, "getRemaining") => store' = store
     /\ store' # store =>
          \/ \E c \in Clients : ServedOp(c, "limit")
          \/ (\E c \in Clients : ServedOp(c, "reset")) /\ Removed(store, store')
          \/ now' # now /\ Removed(store, store')]_vars

\* getRemaining has just been answered from the script while the store holds
\* the counter of the identifier.
C30_ReadServed ==
  /\ last.op = "getRemaining" /\ last.src = "script"
  /\ last.used0 >= 1
  /\ store # <<>>
\* The token-bucket limit script runs for client c's call in this step and
\* refuses it: the tokens after the refills that are due are fewer than
\* incrementBy.
Refuses(c) ==
  /\ algo = "tokenBucket"
  /\ calls[c] # Idle /\ calls[c].op = "limit" /\ calls[c].phase = "evalsha"
  /\ calls'[c] = Idle
  /\ last'.op = "limit" /\ last'.src = "script"
  /\ Refilled(store, key(calls[c].id), conf.maxTokens, conf.interval,
              conf.refillRate, calls[c].t).tokens < calls[c].inc

\* C31: token bucket, every configuration. A step in which the limit script
\* refuses a request (tokens after refill < incrementBy) writes nothing: the
\* keyspace is as before, with the refilledAt, the tokens and the expiry of
\* the key, and a key that did not exist does not exist afterwards.
C31_RefusalWritesNothing ==
  [][\A c \in Clients :
       Refuses(c) =>
         /\ store' = store
         /\ ~Exists(store, key(calls[c].id)) => ~Exists(store', key(calls[c].id))
    ]_vars

\* The script has just refused a request for an identifier without state: the
\* request is larger than the capacity, and no key was created.
C31_RefusedWithoutState ==
  /\ algo = "tokenBucket" /\ FromScript
  /\ last.used0 = 0 /\ last.inc > conf.maxTokens /\ last.consumed = 0
  /\ ~Exists(store, key(last.id))
\* C32: sliding window, every rate >= 1. A step in which the store answers a
\* limit call whose response has success=false leaves the current and the
\* previous counter of the call as they were: a rejected request consumes
\* nothing.
C32_RejectedConsumesNothing ==
  [][\A c \in Clients :
       (algo = "slidingWindow" /\ LimitServed(c)
          /\ last'.op = "limit" /\ ~last'.success) =>
         /\ Get(store', CurrentKey(calls[c])) = Get(store, CurrentKey(calls[c]))
         /\ Get(store', PreviousKey(calls[c])) = Get(store, PreviousKey(calls[c]))
    ]_vars
\* Client c is the only caller with a call in progress, a limit call.
OnlyLimit(c) ==
  /\ calls[c] # Idle /\ calls[c].op = "limit"
  /\ \A d \in Clients \ {c} : calls[d] = Idle

\* C33: one limit call causes at most one execution of its limit script. With
\* one caller at work, a step that changes the keyspace at a fixed time is
\* the answer to the call's EVALSHA, the script being cached, and ends the
\* call; a call that goes on is the same call, and the only further command
\* it sends is SCRIPT LOAD, once, after EVALSHA missed the script cache, with
\* the keyspace untouched; after SCRIPT LOAD no EVALSHA follows.
C33_OneExecution ==
  [][\A c \in Clients :
       OnlyLimit(c) =>
         /\ (store' # store /\ now' = now) =>
              /\ calls[c].phase = "evalsha" /\ calls[c].op \in scripts
              /\ calls'[c] = Idle
         /\ calls'[c] # Idle =>
              /\ calls'[c] = [calls[c] EXCEPT !.phase = calls'[c].phase,
                                              !.err = calls'[c].err,
                                              !.settled = calls'[c].settled]
              /\ calls'[c].phase # calls[c].phase =>
                   /\ calls[c].phase = "evalsha" /\ calls'[c].phase = "load"
                   /\ calls[c].op \notin scripts
                   /\ store' = store
    ]_vars

\* limit has just returned after a miss of the script cache: EVALSHA and one
\* SCRIPT LOAD were sent, the script is cached now and nothing was consumed.
C33_ServedAfterMiss ==
  /\ Returned /\ last.src = "load" /\ last.consumed = 0
  /\ "limit" \in scripts
\* C34: the watchdog ends only the caller's wait. The step in which the
\* timeout response wins the race gives the caller success=true with reason
\* "timeout" and leaves the keyspace and the command in flight as they are;
\* when the store runs the script of such a call afterwards, the script's
\* effect on the keyspace is applied in full.
C34_WatchdogDoesNotRevoke ==
  [][\A c \in Clients :
       /\ (Pending(c) /\ calls'[c] # Idle /\ calls'[c].settled) =>
            /\ store' = store
            /\ calls'[c] = [calls[c] EXCEPT !.settled = TRUE]
            /\ last'.op = "limit" /\ last'.success /\ last'.reason = "timeout"
       /\ (calls[c] # Idle /\ calls[c].settled /\ calls'[c] = Idle
             /\ last'.op = "late" /\ last'.src = "script") =>
            store' = RunScript(store, calls[c], now).store
    ]_vars

\* Fixed window: the store has just run the limit script of a call whose
\* caller had been given success=true with reason "timeout"; it counted the
\* request as over the limit, and the counter holds the request.
C34_CountedOverLimit ==
  /\ algo = "fixedWindow"
  /\ last.op = "late" /\ last.src = "script" /\ ~last.success
  /\ last.consumed = last.inc
  /\ Get(store, BucketKey(key(last.id), Bucket(last.t))) = last.used0 + last.inc
  /\ last.used0 + last.inc > Tokens
\* C35: under each algorithm blockUntilReady never fails with the "invalid
\* reset" error: no response limit returns has success=false together with
\* reset = 0, whether computed from the store's reply or the watchdog's; the
\* timeout response, which has reset 0, has success=true and ends the loop
\* at once.
C35_NoInvalidReset ==
  /\ Returned => ~(~last.success /\ last.reset = 0)
  /\ (BlockEnded /\ ret.op = "throw") => ret.error # ErrInvalidReset
  /\ (BlockEnded /\ ret.op = "blockUntilReady" /\ ret.res.src = "timeout") =>
       (ret.res.reset = 0 /\ ret.res.success /\ ret.via = "limit")

\* blockUntilReady, called with the budget used up, has just returned the
\* timeout response of its limit call, reset 0.
C35_TimeoutEndsLoop ==
  /\ BlockedReturn /\ ret.res.src = "timeout" /\ ret.res.reset = 0
  /\ ret.via = "limit"
\* C36: the step in which resetUsedTokens(id) returns has run the reset
\* script once with the pattern prefix:id:*: it removed keys only, every key
\* it removed matches the pattern, and (fewer than max_deletes keys matching,
\* the script running alone at the store) no key matching the pattern is
\* left.
C36_ResetRemovesMatching ==
  [][\A c \in Clients :
       (ResetServed(c) /\ last'.op = "reset") =>
         LET pattern == ResetPattern(key(calls[c].id))
         IN /\ Removed(store, store')
            /\ \A k \in DOMAIN store \ DOMAIN store' : GlobMatch(pattern, k)
            /\ \A k \in DOMAIN store' : ~GlobMatch(pattern, k)
    ]_vars
\* C37: getRemaining agrees with limit. In every reachable state, under each
\* algorithm and for every identifier, getRemaining(id) called now reports
\* remaining > 0 exactly when limit(id) with rate 1 called now would be
\* answered success=true.
C37_RemainingAgreesWithLimit ==
  \A id \in Ids :
    LET remaining == Answer(id, "getRemaining", 0).remaining
    IN (IsNum(remaining) /\ remaining > 0) = Answer(id, "limit", 1).success
\* The reply of the token-bucket limit script to a request of size inc for
\* id made and served at time t, on keyspace s less the keys expired by then.
BucketReply(s, id, inc, t) ==
  tokenBucketLimitScript(Expire(s, t), key(id), conf.maxTokens, conf.interval,
                         conf.refillRate, t, inc, t).reply.v

\* C38: token bucket, every configuration and every incrementBy >= 1. When
\* the limit script has refused a request made at time t and reported the
\* delay d = retryAfter - t, the same request made at t + d, nothing having
\* been processed for the identifier in between, is accepted by the script.
C38_RetryHint ==
  (algo = "tokenBucket" /\ FromScript
     /\ conf.maxTokens - last.used0 < last.inc) =>
    LET refusal == tokenBucketLimitScript(store, key(last.id), conf.maxTokens,
                                          conf.interval, conf.refillRate,
                                          last.t, last.inc, now).reply.v
        d == refusal[4]
    IN /\ refusal[1] = 0
       /\ BucketReply(store, last.id, last.inc, last.t + d)[1] = 1
\* The tokens the refill rule gives at time t to the bucket stored at key k.
TokensAt(s, k, t) ==
  Refilled(s, k, conf.maxTokens, conf.interval, conf.refillRate, t).tokens

\* C39: token bucket, every configuration, the clients' clock being the
\* store's. A written key expires
\* ceil((maxTokens - remaining) / refillRate) * interval * 2 ms after its
\* last write; in every reachable state the refill computed at the expiry
\* time of a key from what the key holds gives maxTokens, and so does the
\* refill computed at the moment the passing of time removes a key: the
\* identifier without its key has maxTokens, no more than refilling gave.
C39_ExpiryHarmless ==
  /\ [](algo = "tokenBucket" =>
          \A k \in DOMAIN store :
            TokensAt(store, k, store[k].exp) = conf.maxTokens)
  /\ [][algo = "tokenBucket" =>
          /\ \A k \in DOMAIN store' :
               (k \notin DOMAIN store \/ store'[k] # store[k]) =>
                 store'[k].exp =
                   now + Ceil(conf.maxTokens - store'[k].tokens, conf.refillRate)
                           * conf.interval * 2
          /\ \A k \in DOMAIN store \ DOMAIN store' :
               now' # now =>
                 /\ store[k].exp < now'
                 /\ TokensAt(store, k, now') = conf.maxTokens
                 /\ TokensAt(store', k, now') = TokensAt(store, k, now')]_vars

\* A key holding fewer than maxTokens tokens is at its expiry time: the store
\* drops it as time goes on.
C39_KeyAtExpiry ==
  /\ algo = "tokenBucket"
  /\ \E k \in DOMAIN store :
       /\ store[k].exp = now
       /\ store[k].tokens < conf.maxTokens
\* C40: the watchdog timer set for a limit call is pending only while that
\* call has returned nothing to its caller, with timeout > 0 and with
\* timeout = 0: when the call settles, by the store's reply, by an error of
\* the store or by the timeout response, no timer of it is left, and a timer
\* runs out only for a call that has not settled, not before its delay.
C40_TimerCancelled ==
  /\ [](\A c \in Clients : timer[c] = "armed" => Pending(c))
  /\ [][\A c \in Clients :
          (timer[c] = "armed" /\ timer'[c] = "none" /\ calls'[c] # Idle) =>
            (Pending(c) /\ now >= calls[c].t + timeout)]_vars

\* With timeout > 0 the store has just answered a limit call before its
\* watchdog was due, and the timer is gone.
C40_ClearedOnReply ==
  /\ FromScript /\ timeout > 0 /\ now < last.t + timeout
  /\ \A c \in Clients : timer[c] = "none"
====
